---- MODULE Spec2Model ----
(***************************************************************************)
(* size-limit-action: the branch-comparison pipeline of src/index.ts.      *)
(*                                                                         *)
(* run() validates its inputs, creates one git worktree per revision,      *)
(* runs execSizeLimit in each of them, removes the worktrees, parses the   *)
(* two outputs and creates or updates the report comment of the pull       *)
(* request.  Every awaited child process or HTTP call is an operation      *)
(* that is started by the code and completes later, with either outcome;   *)
(* the continuation of an awaited Promise.all runs before any further      *)
(* completion callback (microtasks run before the next I/O callback).      *)
(***************************************************************************)
EXTENDS Integers, Sequences, FiniteSets, TLC

VARIABLES
    pc,          \* position of run(): start, awaitWorktrees, awaitSizeLimit,
                 \* awaitRemove, awaitList, awaitCreate, awaitUpdate, done
    inputs,      \* context.payload.pull_request and the action inputs
    cw,          \* per side: state of the createWorktree call
    ch,          \* per side: state of the execSizeLimit chain
    rm,          \* per side: state of the removeWorktree call
    wt,          \* per side: the worktree directory exists on disk
    opts,        \* per side: branch / worktreeDirectory given to execSizeLimit
    res,         \* per side: status and output captured by the analyze step
    chErr,       \* per side: the error the execSizeLimit chain rejected with
    pendingErr,  \* error thrown inside the try block, re-thrown after finally
    failed,      \* sequence of setFailed messages
    warnings,    \* set of warning()/console.warn messages
    store,       \* the issue comments of the pull request, in creation order
    found,       \* sizeLimitComment: id returned by fetchSizeLimitCommentId
    calls,       \* number of listComments/createComment/updateComment calls
    rmCalls,     \* per side: number of removeWorktree invocations
    fetched,     \* per side: a git fetch of the ref has completed successfully
    runNo,       \* number of the publish phase working on the store
    log,         \* per side: the commands execSizeLimit has started, in order
    peer,        \* publish phase of another run on the same pull request:
                 \* its position and the id its lookup returned
    call         \* a call of an exported function: its arguments and what it returned

vars == <<pc, inputs, cw, ch, rm, wt, opts, res, chErr, pendingErr, failed,
          warnings, store, found, calls, rmCalls, fetched, runNo, log,
          peer, call>>

\* ------------------------------------------------------------------ bounds

\* Page size of one listComments call.  The call passes no per_page and is
\* not paginated, so the API answers with its first page (30 entries on
\* GitHub); the model scales the page down.
PerPage == 2

\* Largest number of comments on the pull request before run() starts.
MaxInitComments == 2

\* Largest number of comments on the pull request before the first publish
\* phase of SpecPublish and SpecPushes.
MaxPublishComments == 3

\* Number of successive publish phases (pushes) on one pull request.
MaxRuns == 3

\* calculateChange is called on every pair of the sizes 0..MaxNumber and of
\* the sample values below.
MaxNumber == 16

\* The longest array of results parseResults is given.
MaxElements == 2

\* ------------------------------------------------------------------ data

Sides == {"base", "head"}

\* index.ts:58-59
WorktreePath(s) == IF s = "base" THEN ".git-worktree-base" ELSE ".git-worktree-head"

\* pullRequest.base.ref / pullRequest.head.ref
Ref(s) == IF s = "base" THEN "main" ELSE "feature"

PackageManager == {"npm", "yarn", "pnpm", "bun", "deno"}

undefined == "undefined"

\* String.prototype.trim().toLowerCase() on the inputs the model draws.
TrimLower(str) ==
    CASE str = " Yarn " -> "yarn"
      [] str = "PNPM" -> "pnpm"
      [] OTHER -> str

\* Variant: a string that names no package manager falls back to npm.
packageManagerFromStringToEnumOrNpm(str) ==
    IF \E m \in PackageManager : TrimLower(m) = TrimLower(str)
    THEN CHOOSE m \in PackageManager : TrimLower(m) = TrimLower(str)
    ELSE "npm"

packageManagerFromStringToEnum(str) ==
    IF \E m \in PackageManager : TrimLower(m) = TrimLower(str)
    THEN CHOOSE m \in PackageManager : TrimLower(m) = TrimLower(str)
    ELSE undefined

SkipStepInputs == {"", "install", "build", "test"}
CleanScriptInputs == {"", "clean"}
PackageManagerInputs == {"", " Yarn ", "pip"}

\* Raw standard output of the analyze command and what JSON.parse followed
\* by Array.prototype.reduce makes of it.
Outputs == {"", "{}", "[]"}

JsonKind(output) ==
    CASE output = "" -> "invalid"
      [] output = "size-limit: not found" -> "invalid"
      [] output = "{}" -> "object"
      [] output = "\"a\"" -> "string"
      [] output = "1" -> "number"
      [] output = "true" -> "boolean"
      [] output = "null" -> "null"
      [] output = "[]" -> "array"
      [] output = "[...]" -> "array"

\* parseResults throws: JSON.parse on invalid JSON, results.reduce on a
\* value that is not an array.
parseResultsThrows(output) == JsonKind(output) # "array"

Err(kind, detail) == [kind |-> kind, detail |-> detail]
NoErr == Err("none", "")

\* No other run of the action is publishing on the pull request.
NoPeer == [pc |-> "none", found |-> 0]

\* No exported function is being called on its own.
NoCall == [fn |-> "", args |-> <<>>, returned |-> FALSE, ret |-> <<>>, threw |-> ""]

SIZE_LIMIT_HEADING == "## size-limit report "

SIZE_LIMIT_FOOTER == "[Learn more about size-limit](https://github.com/ai/size-limit)"

\* Commit hash of the revision checked out for a side.
CommitHash(s) == IF s = "base" THEN "abc1234" ELSE "def5678"

\* index.ts:131-136 with the branches swapped between the two lines.
comparisonMetadataSwapped(baseHash, headHash) ==
    [baseBranch |-> Ref("head"), baseHash |-> baseHash,
     headBranch |-> Ref("base"), headHash |-> headHash]

\* index.ts:131-136: the branches of the pull request and the commit hashes
\* the two chains returned.
comparisonMetadata(baseHash, headHash) ==
    [baseBranch |-> Ref("base"), baseHash |-> baseHash,
     headBranch |-> Ref("head"), headHash |-> headHash]

\* The line *Last updated: <new Date().toUTCString()>*, the time being the number
\* of the run that wrote the body.
LastUpdated(now) == "*Last updated: " \o ToString(now) \o "*"

\* A code span of Markdown, its delimiter written as a vertical bar.
Code(text) == "|" \o text \o "|"

\* formatSizeLimitResultsAsCommentBody(results, metadata): the lines joined
\* into the body.  The table stands for markdownTable(results).
formatSizeLimitResultsAsCommentBody(results, metadata, now) ==
    <<SIZE_LIMIT_HEADING,
      results,
      "",
      "- **Base:** " \o Code(metadata.baseBranch) \o " (" \o Code(metadata.baseHash) \o ")",
      "- **Head:** " \o Code(metadata.headBranch) \o " (" \o Code(metadata.headHash) \o ")",
      "",
      LastUpdated(now),
      SIZE_LIMIT_FOOTER>>

\* The body of the report comment that run number rev wrote.
CommentBody(rev) ==
    [lines |-> formatSizeLimitResultsAsCommentBody(
                   "table", comparisonMetadata(CommitHash("base"), CommitHash("head")), rev),
     rev |-> rev]
OtherBody == [lines |-> <<"LGTM">>, rev |-> 0]

\* comment.body?.startsWith(SIZE_LIMIT_HEADING)
StartsWithHeading(body) == Len(body.lines) >= 1 /\ body.lines[1] = SIZE_LIMIT_HEADING

Min(S) == CHOOSE x \in S : \A y \in S : x <= y

\* The comments of the pull request before the run: any mix of report
\* comments and other comments, ids ascending in creation order.
Stores(max) ==
    UNION { { [i \in 1..n |-> [id |-> i,
                               body |-> IF k[i] THEN CommentBody(0) ELSE OtherBody]] :
              k \in [1..n -> BOOLEAN] } : n \in 0..max }

ReportIds(st) == {st[i].id : i \in {j \in 1..Len(st) : StartsWithHeading(st[j].body)}}

NextId(st) == IF st = <<>> THEN 1 ELSE st[Len(st)].id + 1

\* ------------------------------------------------------- execSizeLimit

\* size-limit.ts:110: the branch is fetched and checked out only when no
\* worktree directory is given.
NeedsCheckout(branch, worktreeDirectory) == branch # "" /\ worktreeDirectory = ""

\* size-limit.ts:93 and :121: the option defaults to npm when undefined.
ManagerOf(packageManager) ==
    IF packageManager = undefined THEN "npm" ELSE packageManager

\* index.ts:42-48
PackageManagerOption ==
    IF inputs.packageManager = "" THEN undefined
    ELSE packageManagerFromStringToEnum(inputs.packageManager)

\* package-manager-detector's detect() on a working directory: the agent
\* its lockfile names, "" when it finds none.  The base branch uses pnpm,
\* the head branch has moved to yarn, the main checkout has no lockfile.
detect(cwd) ==
    CASE cwd = ".git-worktree-base" -> "pnpm@6"
      [] cwd = ".git-worktree-head" -> "yarn@berry"
      [] OTHER -> ""

\* index.ts:212-231
getPackageManager(directory) ==
    LET agent == detect(directory)
    IN  CASE agent = "npm" -> "npm"
          [] agent \in {"yarn", "yarn@berry"} -> "yarn"
          [] agent \in {"pnpm", "pnpm@6"} -> "pnpm"
          [] agent = "bun" -> "bun"
          [] agent = "deno" -> "deno"
          [] OTHER -> "npm"

\* size-limit.ts:121: packageManager || (await getPackageManager(workingDirectory)),
\* where packageManager is the option after its default of line 93.
Manager(workingDirectory) ==
    LET packageManager == ManagerOf(PackageManagerOption)
    IN  IF packageManager # "" /\ packageManager # undefined
          THEN packageManager
          ELSE getPackageManager(workingDirectory)

\* First command of the chain after the optional checkout.
FirstStep(skipStep) == IF skipStep # "install" THEN "install" ELSE "build"

\* A sequencing in which the build always follows the install.
StepAfterBuildAlways(step, skipStep, cleanScript) ==
    CASE step = "install" -> "build"
      [] step = "build" -> "analyze"
      [] step = "analyze" -> IF cleanScript # "" THEN "clean" ELSE "hash"
      [] step = "clean" -> "hash"
      [] step = "hash" -> "returned"

\* The command started when `step` has completed.
StepAfter(step, skipStep, cleanScript) ==
    CASE step = "install" -> IF skipStep # "build" THEN "build" ELSE "analyze"
      [] step = "build" -> "analyze"
      [] step = "analyze" -> IF cleanScript # "" THEN "clean" ELSE "hash"
      [] step = "clean" -> "hash"
      [] step = "hash" -> "returned"

\* Position of a chain right after execSizeLimit is called.
ExecEntry(branch, worktreeDirectory, skipStep) ==
    IF NeedsCheckout(branch, worktreeDirectory) THEN "fetch" ELSE FirstStep(skipStep)

\* A chain that lets the error of the child process through as it is.
StepErrorRaw(step, manager) == Err("exec", step)

\* The error a failed command makes execSizeLimit reject with.
StepError(step, manager) ==
    CASE step = "install" -> Err("Failed to install dependencies", manager)
      [] step = "build" -> Err("Failed to run build script", manager)
      [] step = "clean" -> Err("Failed to run clean script", manager)
      [] step = "analyze" -> Err("exec", "script")
      [] step = "hash" -> Err("exec", "git rev-parse")

Commands == {"install", "build", "analyze", "clean", "hash"}

\* The program a command runs: the installer, the analyze script or git.
Tool(step, manager) ==
    CASE step \in {"install", "build", "clean"} -> manager
      [] step = "analyze" -> "script"
      [] OTHER -> "git"

\* The list of started commands once a chain has moved to `step`.
Started(lg, step, manager) ==
    IF step \in Commands \cup {"fetch", "checkout"}
      THEN Append(lg, [step |-> step, tool |-> Tool(step, manager)])
      ELSE lg

\* A chain is executing a child process or about to start the next one.
ChainBusy(s) == cw[s] = "running" \/ ch[s] \in Commands \cup {"fetch", "checkout"}

\* ------------------------------------------------------------- run()

\* Variant: the join waits until both calls have settled, whatever their
\* outcome, and run() carries on.
WorktreesSettled == \A s \in Sides : cw[s] \in {"ok", "failed"}

\* Promise.all of the two createWorktree calls: rejected as soon as one call
\* rejects, fulfilled once both have fulfilled.
WorktreesRejected == \E s \in Sides : cw[s] = "failed"
WorktreesFulfilled == \A s \in Sides : cw[s] = "ok"

\* The continuation of run() is ready: the awaited Promise.all has settled.
\* Promise.all rejects as soon as one member rejects and fulfils when all
\* members have fulfilled; removeWorktree never rejects.
MainReady ==
    \/ pc = "start"
    \/ pc = "awaitWorktrees" /\ (WorktreesRejected \/ WorktreesFulfilled)
    \/ pc = "awaitSizeLimit" /\ ((\E s \in Sides : ch[s] = "failed") \/ (\A s \in Sides : ch[s] = "returned"))
    \/ pc = "awaitRemove" /\ \A s \in Sides : rm[s] \in {"ok", "warned"}

\* Variant: the status check is made after the try/catch, so it also runs
\* once the catch has signalled the error.
CatchThenStatus(err) ==
    /\ failed' = IF res["head"].status > 0
                   THEN Append(Append(failed, err), [kind |-> "Size limit exceeded", detail |-> ""])
                   ELSE Append(failed, err)
    /\ pc' = "done"

\* index.ts:170-176: the outer catch turns the error into setFailed.
Catch(err) ==
    /\ failed' = Append(failed, err)
    /\ pc' = "done"

\* Variant: only the worktrees whose creation succeeded are removed.
FinallyCreatedOnly(err) ==
    /\ rm' = [s \in Sides |-> IF cw[s] = "ok" THEN "running" ELSE "ok"]
    /\ rmCalls' = [s \in Sides |-> IF cw[s] = "ok" THEN rmCalls[s] + 1 ELSE rmCalls[s]]
    /\ pendingErr' = err
    /\ pc' = "awaitRemove"

\* index.ts:105-108: the finally block starts both removals; the error of
\* the try block, if any, is re-thrown once both have settled.
Finally(err) ==
    /\ rm' = [s \in Sides |-> "running"]
    /\ rmCalls' = [s \in Sides |-> rmCalls[s] + 1]
    /\ pendingErr' = err
    /\ pc' = "awaitRemove"

\* index.ts:16-72: validation, then both createWorktree calls are started.
RunStart ==
    /\ pc = "start"
    /\ IF ~inputs.pullRequest
         THEN /\ Catch(Err("Only pull_request workflows are supported", ""))
              /\ UNCHANGED cw
       ELSE IF inputs.skipStep # "" /\ inputs.skipStep \notin {"install", "build"}
         THEN /\ Catch(Err("Invalid skip step", inputs.skipStep))
              /\ UNCHANGED cw
       ELSE IF inputs.packageManager # "" /\ PackageManagerOption = undefined
         THEN /\ Catch(Err("Invalid package manager", inputs.packageManager))
              /\ UNCHANGED cw
       ELSE /\ cw' = [s \in Sides |-> "running"]
            /\ pc' = "awaitWorktrees"
            /\ UNCHANGED failed
    /\ UNCHANGED <<inputs, call, peer, ch, log, rm, wt, opts, res, chErr, pendingErr, warnings,
                   store, found, calls, rmCalls, fetched, runNo>>

\* git.ts:45-55: `git worktree add` ends; createWorktree fulfils or rejects.
CreateWorktreeDone(s, ok) ==
    /\ ~MainReady
    /\ cw[s] = "running"
    /\ cw' = [cw EXCEPT ![s] = IF ok THEN "ok" ELSE "failed"]
    /\ wt' = [wt EXCEPT ![s] = IF ok THEN TRUE ELSE @]
    /\ UNCHANGED <<pc, inputs, call, peer, ch, log, rm, opts, res, chErr, pendingErr, failed,
                   warnings, store, found, calls, rmCalls, fetched, runNo>>

\* index.ts:69-98: the first Promise.all settles.
AwaitWorktrees ==
    /\ pc = "awaitWorktrees"
    /\ \/ /\ WorktreesRejected
          /\ Finally(Err("Failed to create worktree",
                         CHOOSE s \in Sides : cw[s] = "failed"))
          /\ UNCHANGED <<ch, log, opts>>
       \/ /\ WorktreesFulfilled
          /\ opts' = [s \in Sides |-> [branch |-> Ref(s),
                                       worktreeDirectory |-> WorktreePath(s)]]
          /\ ch' = [s \in Sides |-> ExecEntry(Ref(s), WorktreePath(s), inputs.skipStep)]
          /\ log' = [s \in Sides |-> Started(log[s], ch'[s], Manager(WorktreePath(s)))]
          /\ pc' = "awaitSizeLimit"
          /\ UNCHANGED <<rm, rmCalls, pendingErr>>
    /\ UNCHANGED <<inputs, call, peer, cw, wt, res, chErr, failed, warnings, store, found,
                   calls, fetched, runNo>>

\* size-limit.ts:110-119 (no worktree): fetchBranch, git.ts:27-36.
FetchBranchDone(s, ok) ==
    /\ ~MainReady
    /\ ch[s] = "fetch"
    /\ IF ok
         THEN /\ fetched' = [fetched EXCEPT ![s] = TRUE]
              /\ ch' = [ch EXCEPT ![s] = "checkout"]
              /\ UNCHANGED chErr
         ELSE /\ ch' = [ch EXCEPT ![s] = "failed"]
              /\ chErr' = [chErr EXCEPT ![s] = Err("Failed to checkout branch", opts[s].branch)]
              /\ UNCHANGED fetched
    /\ log' = [log EXCEPT ![s] = Started(@, ch'[s], Manager(opts[s].worktreeDirectory))]
    /\ UNCHANGED <<pc, inputs, call, peer, cw, rm, wt, opts, res, pendingErr, failed,
                   warnings, store, found, calls, rmCalls, runNo>>

\* size-limit.ts:114: git checkout -f origin/<branch>.
CheckoutDone(s, ok) ==
    /\ ~MainReady
    /\ ch[s] = "checkout"
    /\ IF ok
         THEN /\ ch' = [ch EXCEPT ![s] = FirstStep(inputs.skipStep)]
              /\ UNCHANGED chErr
         ELSE /\ ch' = [ch EXCEPT ![s] = "failed"]
              /\ chErr' = [chErr EXCEPT ![s] = Err("Failed to checkout branch", opts[s].branch)]
    /\ log' = [log EXCEPT ![s] = Started(@, ch'[s], Manager(opts[s].worktreeDirectory))]
    /\ UNCHANGED <<pc, inputs, call, peer, cw, rm, wt, opts, res, pendingErr, failed,
                   warnings, store, found, calls, rmCalls, fetched, runNo>>

\* size-limit.ts:123-144, 157-177: the install, build, clean or rev-parse
\* command of a chain ends; on success the chain starts its next command
\* (or returns), on failure execSizeLimit rejects.
StepDone(s, ok) ==
    /\ ~MainReady
    /\ ch[s] \in {"install", "build", "clean", "hash"}
    /\ IF ok
         THEN /\ ch' = [ch EXCEPT ![s] = StepAfter(ch[s], inputs.skipStep, inputs.cleanScript)]
              /\ res' = IF ch[s] = "hash"
                          THEN [res EXCEPT ![s].commitHash = CommitHash(s)]
                          ELSE res
              /\ UNCHANGED chErr
         ELSE /\ ch' = [ch EXCEPT ![s] = "failed"]
              /\ chErr' = [chErr EXCEPT ![s] = StepError(ch[s], Manager(opts[s].worktreeDirectory))]
              /\ UNCHANGED res
    /\ log' = [log EXCEPT ![s] = Started(@, ch'[s], Manager(opts[s].worktreeDirectory))]
    /\ UNCHANGED <<pc, inputs, call, peer, cw, rm, wt, opts, pendingErr, failed,
                   warnings, store, found, calls, rmCalls, fetched, runNo>>

\* Variant: a non-zero exit code of the analyze command rejects like that of
\* any other command.
AnalyzeDoneChecked(s, status, output) ==
    /\ ~MainReady
    /\ ch[s] = "analyze"
    /\ res' = [res EXCEPT ![s].status = status, ![s].output = output]
    /\ ch' = [ch EXCEPT ![s] = IF status = 0
                                 THEN StepAfter("analyze", inputs.skipStep, inputs.cleanScript)
                                 ELSE "failed"]
    /\ chErr' = [chErr EXCEPT ![s] = IF status = 0 THEN @ ELSE Err("exec", "script")]
    /\ log' = [log EXCEPT ![s] = Started(@, ch'[s], Manager(opts[s].worktreeDirectory))]
    /\ UNCHANGED <<pc, inputs, call, peer, cw, rm, wt, opts, pendingErr, failed,
                   warnings, store, found, calls, rmCalls, fetched, runNo>>

\* size-limit.ts:146-155: the analyze command ends with an exit code, which
\* is returned and not thrown (ignoreReturnCode).
AnalyzeDone(s, status, output) ==
    /\ ~MainReady
    /\ ch[s] = "analyze"
    /\ res' = [res EXCEPT ![s].status = status, ![s].output = output]
    /\ ch' = [ch EXCEPT ![s] = StepAfter("analyze", inputs.skipStep, inputs.cleanScript)]
    /\ log' = [log EXCEPT ![s] = Started(@, ch'[s], Manager(opts[s].worktreeDirectory))]
    /\ UNCHANGED <<pc, inputs, call, peer, cw, rm, wt, opts, chErr, pendingErr, failed,
                   warnings, store, found, calls, rmCalls, fetched, runNo>>

\* size-limit.ts:146: the analyze command cannot be started (exec rejects).
AnalyzeFail(s) ==
    /\ ~MainReady
    /\ ch[s] = "analyze"
    /\ ch' = [ch EXCEPT ![s] = "failed"]
    /\ chErr' = [chErr EXCEPT ![s] = StepError("analyze", Manager(opts[s].worktreeDirectory))]
    /\ UNCHANGED log
    /\ UNCHANGED <<pc, inputs, call, peer, cw, rm, wt, opts, res, pendingErr, failed,
                   warnings, store, found, calls, rmCalls, fetched, runNo>>

\* index.ts:75-108: the second Promise.all settles and the finally block runs.
AwaitSizeLimit ==
    /\ pc = "awaitSizeLimit"
    /\ \/ /\ \E s \in Sides : ch[s] = "failed"
          /\ Finally(chErr[CHOOSE s \in Sides : ch[s] = "failed"])
       \/ /\ \A s \in Sides : ch[s] = "returned"
          /\ Finally(NoErr)
    /\ UNCHANGED <<inputs, call, peer, cw, ch, log, wt, opts, res, chErr, failed, warnings,
                   store, found, calls, fetched, runNo>>

\* The message of a failed `git worktree remove`: git names the path, and
\* says so when the path is not a working tree.
RemoveFailure(worktreePath, exists) ==
    IF exists THEN worktreePath ELSE worktreePath \o ": is not a working tree"

\* Variant: removeWorktree without its try/catch, the failure of the git
\* command reaching the caller.
RemoveWorktreeDoneThrows(s, ok) ==
    /\ ~MainReady
    /\ rm[s] = "running"
    /\ ok => wt[s]
    /\ IF ok
         THEN /\ wt' = [wt EXCEPT ![s] = FALSE]
              /\ rm' = [rm EXCEPT ![s] = "ok"]
              /\ UNCHANGED pendingErr
         ELSE /\ rm' = [rm EXCEPT ![s] = "warned"]
              /\ pendingErr' = Err("Failed to remove worktree", WorktreePath(s))
              /\ UNCHANGED wt
    /\ UNCHANGED <<pc, inputs, call, peer, cw, ch, log, opts, res, chErr, warnings, failed,
                   store, found, calls, rmCalls, fetched, runNo>>

\* git.ts:62-74: `git worktree remove --force` ends; a failure is logged
\* with console.warn and swallowed.
RemoveWorktreeDone(s, ok) ==
    /\ ~MainReady
    /\ rm[s] = "running"
    /\ ok => wt[s]
    /\ IF ok
         THEN /\ wt' = [wt EXCEPT ![s] = FALSE]
              /\ rm' = [rm EXCEPT ![s] = "ok"]
              /\ UNCHANGED warnings
         ELSE /\ rm' = [rm EXCEPT ![s] = "warned"]
              /\ warnings' = warnings \cup {Err("Failed to remove worktree",
                                                RemoveFailure(WorktreePath(s), wt[s]))}
              /\ UNCHANGED wt
    /\ UNCHANGED <<pc, inputs, call, peer, cw, ch, log, opts, res, chErr, pendingErr, failed,
                   store, found, calls, rmCalls, fetched, runNo>>

\* Variant: an unparseable head output is replaced by an empty result set.
ParseOutcomeHeadFallback(baseOutput, output) ==
    IF parseResultsThrows(baseOutput) THEN "skip" ELSE "publish"

\* Variant: an unparseable base output is replaced by an empty result set.
ParseOutcomeBaseFallback(baseOutput, output) ==
    IF parseResultsThrows(output) THEN "throw" ELSE "publish"

\* Variant: the head output is parsed before the base output.
ParseOutcomeHeadFirst(baseOutput, output) ==
    IF parseResultsThrows(output) THEN "throw"
    ELSE IF parseResultsThrows(baseOutput) THEN "skip"
    ELSE "publish"

\* index.ts:113-129: base output parsed first (a failure is a warning and
\* ends run()), then the head output (a failure is thrown).
ParseOutcome(baseOutput, output) ==
    IF parseResultsThrows(baseOutput) THEN "skip"
    ELSE IF parseResultsThrows(output) THEN "throw"
    ELSE "publish"

\* index.ts:108-140: both removals have settled; the pending error is
\* re-thrown, or the outputs are parsed and listComments is called.
AfterRemove ==
    /\ pc = "awaitRemove"
    /\ \A s \in Sides : rm[s] \in {"ok", "warned"}
    /\ IF pendingErr # NoErr
         THEN /\ Catch(pendingErr)
              /\ UNCHANGED <<warnings, calls>>
       ELSE IF ParseOutcome(res["base"].output, res["head"].output) = "skip"
         THEN /\ warnings' = warnings \cup {Err("Could not parse base branch size-limit results", "")}
              /\ pc' = "done"
              /\ UNCHANGED <<failed, calls>>
       ELSE IF ParseOutcome(res["base"].output, res["head"].output) = "throw"
         THEN /\ Catch(Err("Error parsing size-limit output", ""))
              /\ UNCHANGED <<warnings, calls>>
       ELSE /\ calls' = [calls EXCEPT !.list = @ + 1]
            /\ pc' = "awaitList"
            /\ UNCHANGED <<failed, warnings>>
    /\ UNCHANGED <<inputs, call, peer, cw, ch, log, rm, wt, opts, res, chErr, pendingErr,
                   store, found, rmCalls, fetched, runNo>>

\* ------------------------------------------------------ report publisher

\* What one listComments call returns: the first page, oldest first.
FirstPage(st) == SubSeq(st, 1, IF Len(st) < PerPage THEN Len(st) ELSE PerPage)

\* Variant: findLast instead of find.
fetchLastSizeLimitCommentId(st) ==
    LET page == FirstPage(st)
        hits == {i \in 1..Len(page) : StartsWithHeading(page[i].body)}
    IN  IF hits = {} THEN 0 ELSE page[CHOOSE i \in hits : \A j \in hits : j <= i].id

\* comment.ts:18-33: id of the first listed comment that starts with the
\* heading, 0 for undefined.
fetchSizeLimitCommentId(st) ==
    LET page == FirstPage(st)
        hits == {i \in 1..Len(page) : StartsWithHeading(page[i].body)}
    IN  IF hits = {} THEN 0 ELSE page[Min(hits)].id

\* comment.ts:44-57: issues.createComment appends a comment.
createSizeLimitComment(st, body) == Append(st, [id |-> NextId(st), body |-> body])

\* comment.ts:68-83: issues.updateComment replaces the body of one comment.
updateSizeLimitComment(st, commentId, body) ==
    [i \in 1..Len(st) |-> IF st[i].id = commentId THEN [st[i] EXCEPT !.body = body] ELSE st[i]]

\* index.ts:166-169
ExitSignal ==
    /\ failed' = IF res["head"].status > 0
                   THEN Append(failed, Err("Size limit exceeded", ""))
                   ELSE failed
    /\ pc' = "done"

\* index.ts:140-156: listComments settles.  A rejection is not caught at
\* the call and reaches the outer catch; otherwise the create or the update
\* call is started.
ListDone(ok) ==
    /\ pc = "awaitList"
    /\ IF ok
         THEN /\ found' = fetchSizeLimitCommentId(store)
              /\ IF found' = 0
                   THEN /\ calls' = [calls EXCEPT !.create = @ + 1]
                        /\ pc' = "awaitCreate"
                   ELSE /\ calls' = [calls EXCEPT !.update = @ + 1]
                        /\ pc' = "awaitUpdate"
              /\ UNCHANGED failed
         ELSE /\ Catch(Err("listComments", ""))
              /\ UNCHANGED <<found, calls>>
    /\ UNCHANGED <<inputs, call, peer, cw, ch, log, rm, wt, opts, res, chErr, pendingErr,
                   warnings, store, rmCalls, fetched, runNo>>

\* index.ts:131-138: the body run() publishes, with the hashes the two
\* chains returned.
Body ==
    [lines |-> formatSizeLimitResultsAsCommentBody(
                   "table",
                   comparisonMetadata(res["base"].commitHash, res["head"].commitHash),
                   runNo),
     rev |-> runNo]

\* index.ts:142-152, 166-169: createComment settles.
CreateCommentDone(ok) ==
    /\ pc = "awaitCreate"
    /\ IF ok
         THEN /\ store' = createSizeLimitComment(store, Body)
              /\ UNCHANGED warnings
         ELSE /\ warnings' = warnings \cup {Err("Failed to create PR comment", "")}
              /\ UNCHANGED store
    /\ ExitSignal
    /\ UNCHANGED <<inputs, call, peer, cw, ch, log, rm, wt, opts, res, chErr, pendingErr,
                   found, calls, rmCalls, fetched, runNo>>

\* index.ts:153-169: updateComment settles.
UpdateCommentDone(ok) ==
    /\ pc = "awaitUpdate"
    /\ IF ok
         THEN /\ store' = updateSizeLimitComment(store, found, Body)
              /\ UNCHANGED warnings
         ELSE /\ warnings' = warnings \cup {Err("Failed to update PR comment", "")}
              /\ UNCHANGED store
    /\ ExitSignal
    /\ UNCHANGED <<inputs, call, peer, cw, ch, log, rm, wt, opts, res, chErr, pendingErr,
                   found, calls, rmCalls, fetched, runNo>>

\* ------------------------------------------- numbers of the runtime
\* A `number` is an IEEE 754 binary64 value: a sign, the exponent of its
\* leading bit and its 53-bit significand, held as the leading 1 followed
\* by four groups of 13 bits.  Zero has no significand and keeps its sign.

GroupBits == 13
Group == 2^GroupBits

\* The weight (as a power of two) of the lowest bit of each group.
Weights == <<52, 39, 26, 13, 0>>

Zero(neg) == [neg |-> neg, exp |-> 0, sig |-> <<>>]
IsZero(x) == x.sig = <<>>

\* The exponent of the leading bit of a positive integer below 2^31.
Log2(n) == CHOOSE k \in 0..30 : 2^k <= n /\ (k = 30 \/ n < 2^(k + 1))

\* Rounding to nearest, ties to even: `sig` is the exact value cut after
\* 53 bits, `half` the first bit cut off, `sticky` whether any later bit is
\* set.
Round(neg, exp, sig, half, sticky) ==
    IF half = 1 /\ (sticky \/ sig[5] % 2 = 1)
      THEN LET s4 == sig[5] + 1
               s3 == sig[4] + s4 \div Group
               s2 == sig[3] + s3 \div Group
               s1 == sig[2] + s2 \div Group
           IN  IF s1 \div Group = 1
                 THEN [neg |-> neg, exp |-> exp + 1, sig |-> <<1, 0, 0, 0, 0>>]
                 ELSE [neg |-> neg, exp |-> exp,
                       sig |-> <<1, s1 % Group, s2 % Group, s3 % Group, s4 % Group>>]
      ELSE [neg |-> neg, exp |-> exp, sig |-> sig]

Magnitude(n) == IF n < 0 THEN -n ELSE n

\* The 13 bits of n * 2^shift that sit at weights 0..12.
BitGroup(n, shift) ==
    IF shift >= GroupBits THEN 0
    ELSE IF shift >= 0 THEN (n % 2^(GroupBits - shift)) * 2^shift
    ELSE IF shift <= -31 THEN 0
    ELSE (n \div 2^(-shift)) % Group

\* The number an integer of the input is (exact below 2^31).
FromInt(n) ==
    IF n = 0 THEN Zero(FALSE)
    ELSE LET a == Magnitude(n)
             e == Log2(a)
         IN  [neg |-> n < 0, exp |-> e,
              sig |-> <<1, BitGroup(a, 52 - e - Weights[2]), BitGroup(a, 52 - e - Weights[3]),
                        BitGroup(a, 52 - e - Weights[4]), BitGroup(a, 52 - e - Weights[5])>>]

RECURSIVE ShiftDown(_, _)
\* The largest k with d * 2^k <= n (d <= n).
ShiftDown(n, d) == IF 2 * d <= n THEN 1 + ShiftDown(n, 2 * d) ELSE 0

RECURSIVE ShiftUp(_, _)
\* The smallest k with n * 2^k >= d.
ShiftUp(n, d) == IF n >= d THEN 0 ELSE 1 + ShiftUp(2 * n, d)

\* The operator `/` on two integers of the input, d not zero: the quotient
\* is developed 13 bits at a time and rounded once.
Quotient(n, d) ==
    IF n = 0 THEN Zero(d < 0)
    ELSE LET a == Magnitude(n)
             b == Magnitude(d)
             up == ShiftUp(a, b)
             down == IF a >= b THEN ShiftDown(a, b) ELSE 0
             den == b * 2^down
             r0 == a * 2^up - den
             r1 == (r0 * Group) % den
             r2 == (r1 * Group) % den
             r3 == (r2 * Group) % den
             r4 == (r3 * Group) % den
         IN  Round((n < 0) # (d < 0), down - up,
                   <<1, (r0 * Group) \div den, (r1 * Group) \div den,
                     (r2 * Group) \div den, (r3 * Group) \div den>>,
                   (2 * r4) \div den, (2 * r4) % den # 0)

\* The operator `*` on a number and a positive integer constant below 2^13.
Times(x, k) ==
    IF IsZero(x) THEN x
    ELSE LET t4 == x.sig[5] * k
             t3 == x.sig[4] * k + t4 \div Group
             t2 == x.sig[3] * k + t3 \div Group
             t1 == x.sig[2] * k + t2 \div Group
             top == k + t1 \div Group
             s == Log2(top)
             Cut(high, low) == (high % 2^s) * 2^(GroupBits - s) + (low % Group) \div 2^s
             dropped == t4 % 2^s
         IN  Round(x.neg, x.exp + s,
                   <<1, Cut(top, t1), Cut(t1, t2), Cut(t2, t3), Cut(t3, t4)>>,
                   IF s = 0 THEN 0 ELSE dropped \div 2^(s - 1),
                   s > 0 /\ dropped % 2^(s - 1) # 0)

\* Math.abs
Abs(x) == [x EXCEPT !.neg = FALSE]

\* Math.sign of an integer of the input.
Sign(n) == IF n > 0 THEN 1 ELSE IF n < 0 THEN -1 ELSE 0

\* Math.ceil, as an integer (for numbers below 2^31).
Ceil(x) ==
    IF IsZero(x) THEN 0
    ELSE LET cut == 52 - x.exp
             Whole(i) == IF Weights[i] >= cut THEN x.sig[i] * 2^(Weights[i] - cut)
                         ELSE IF cut - Weights[i] >= GroupBits THEN 0
                         ELSE x.sig[i] \div 2^(cut - Weights[i])
             Part(i) == IF Weights[i] >= cut THEN 0
                        ELSE IF cut - Weights[i] >= GroupBits THEN x.sig[i]
                        ELSE x.sig[i] % 2^(cut - Weights[i])
             whole == IF x.exp < 0 THEN 0
                      ELSE Whole(1) + Whole(2) + Whole(3) + Whole(4) + Whole(5)
             fraction == x.exp < 0 \/ \E i \in 1..5 : Part(i) # 0
         IN  IF x.neg THEN -whole
             ELSE IF fraction THEN whole + 1 ELSE whole

\* `${n / 100}` for a natural number n: the division gives the number
\* nearest to n/100 and the conversion to a string the shortest decimal
\* that reads back as that number, which is n/100 written without trailing
\* zeros.
HundredthsToString(n) ==
    LET whole == ToString(n \div 100)
        cents == n % 100
    IN  IF cents = 0 THEN whole
        ELSE IF cents % 10 = 0 THEN whole \o "." \o ToString(cents \div 10)
        ELSE IF cents < 10 THEN whole \o ".0" \o ToString(cents)
        ELSE whole \o "." \o ToString(cents)

\* -------------------------------------------------- Change Calculator

\* format-size-limit.ts formatChange
formatChange(value, isPositive) ==
    LET formatted == HundredthsToString(Ceil(Times(Abs(value), 100)))
        emoji == IF isPositive THEN "▲" ELSE "▼"
    IN  [value |-> value,
         isPositive |-> isPositive,
         pretty |-> (IF isPositive THEN "+" ELSE "-") \o formatted \o "% " \o emoji]

\* Variant: a base of 0 is reported as no change.
calculateChangeZeroBase(base, current) ==
    IF base = 0
      THEN formatChange(Zero(FALSE), FALSE)
      ELSE LET value == Times(Quotient(current - base, base), 100)
           IN  formatChange(value, Sign(current - base) = 1)

\* Variant: the direction is taken from the sign of the percentage.
calculateChangeBySign(base, current) ==
    IF base = 0
      THEN formatChange(FromInt(100), TRUE)
      ELSE LET value == Times(Quotient(current - base, base), 100)
           IN  formatChange(value, ~IsZero(value) /\ ~value.neg)

\* format-size-limit.ts calculateChange
calculateChange(base, current) ==
    IF base = 0
      THEN formatChange(FromInt(100), TRUE)
      ELSE LET value == Times(Quotient(current - base, base), 100)
           IN  formatChange(value, Sign(current - base) = 1)

\* ------------------------------------------------------- parseResults

\* What JSON.parse makes of the literal of a field: a number, a string or
\* null, as a value of the runtime.
JsonValue(literal) ==
    CASE literal = "null" -> [type |-> "null", n |-> 0, s |-> ""]
      [] literal = "\"2\"" -> [type |-> "string", n |-> 0, s |-> "2"]
      [] literal = "\"107\"" -> [type |-> "string", n |-> 0, s |-> "107"]
      [] literal = "0" -> [type |-> "number", n |-> 0, s |-> ""]
      [] literal = "1" -> [type |-> "number", n |-> 1, s |-> ""]
      [] literal = "3" -> [type |-> "number", n |-> 3, s |-> ""]
      [] literal = "100" -> [type |-> "number", n |-> 100, s |-> ""]

\* The number a numeric string reads as.
StringToNumber(s) ==
    CASE s = "2" -> 2
      [] s = "107" -> 107

\* The unary + of parseResults: numbers stay, null is 0, a string is read.
ToNumber(v) ==
    CASE v.type = "number" -> v.n
      [] v.type = "null" -> 0
      [] v.type = "string" -> StringToNumber(v.s)

\* An element has a field with a value other than undefined exactly when the
\* JSON text names the field.
Has(result, field) == field \in DOMAIN result

\* Variant: timing is kept as soon as one of the two fields is there, the
\* other counting as 0.
SizeLimitResultOfEither(result) ==
    LET hasTime == Has(result, "loading") \/ Has(result, "running")
        loading == IF Has(result, "loading") THEN ToNumber(JsonValue(result.loading)) ELSE 0
        running == IF Has(result, "running") THEN ToNumber(JsonValue(result.running)) ELSE 0
    IN  IF hasTime
          THEN [name |-> result.name, size |-> ToNumber(JsonValue(result.size)),
                loading |-> loading, running |-> running, total |-> loading + running]
          ELSE [name |-> result.name, size |-> ToNumber(JsonValue(result.size))]

\* format-size-limit.ts:289-302: the record made of one element.
SizeLimitResultOf(result) ==
    LET hasTime == Has(result, "loading") /\ Has(result, "running")
    IN  IF hasTime
          THEN [name |-> result.name,
                size |-> ToNumber(JsonValue(result.size)),
                loading |-> ToNumber(JsonValue(result.loading)),
                running |-> ToNumber(JsonValue(result.running)),
                total |-> ToNumber(JsonValue(result.loading))
                          + ToNumber(JsonValue(result.running))]
          ELSE [name |-> result.name, size |-> ToNumber(JsonValue(result.size))]

\* acc[result.name] = {...} that keeps the record a name already has.
AssignFirst(acc, record) ==
    IF \E i \in 1..Len(acc) : acc[i].name = record.name
      THEN acc
      ELSE Append(acc, record)

\* acc[name] = record: a new key goes last, a key already there keeps its
\* place and takes the new record.
Assign(acc, record) ==
    IF \E i \in 1..Len(acc) : acc[i].name = record.name
      THEN [i \in 1..Len(acc) |-> IF acc[i].name = record.name THEN record ELSE acc[i]]
      ELSE Append(acc, record)

RECURSIVE Reduce(_, _)
\* results.reduce(...) over the elements, from the accumulator acc.
Reduce(results, acc) ==
    IF results = <<>> THEN acc
    ELSE Reduce(Tail(results), Assign(acc, SizeLimitResultOf(Head(results))))

\* parseResults that takes every JSON value without a reduce method for an
\* empty array.
parseResultsErrorLenient(output) ==
    IF JsonKind(output.text) = "invalid" THEN "SyntaxError" ELSE ""

\* The error parseResults(output) throws, "" when it returns: JSON.parse
\* throws a SyntaxError on a text that is not JSON, and results.reduce is
\* a TypeError on every value that is not an array.
parseResultsError(output) ==
    CASE JsonKind(output.text) = "invalid" -> "SyntaxError"
      [] JsonKind(output.text) # "array" -> "TypeError"
      [] OTHER -> ""

\* format-size-limit.ts parseResults on the text of an array whose elements
\* are given by the literals of their fields; the result lists the records
\* in the order of the keys of the object.
parseResults(output) == Reduce(output.elements, <<>>)

\* ------------------------------------------------------ formatResults

SIZE_LIMIT_RESULTS_HEADER == <<"Path", "Size">>

SIZE_LIMIT_TIME_RESULTS_HEADER ==
    <<"Path", "Size", "Loading time (on slow 3G)", "Running time (on Snapdragon 410)",
      "Total time">>

EMPTY_SIZE_RESULT == [name |-> "-", size |-> 0]

EMPTY_TIME_RESULT == [name |-> "-", size |-> 0, running |-> 0, loading |-> 0, total |-> 0]

\* prettyBytes for a size below 1000 bytes.
formatBytes(size) == ToString(size) \o " B"

\* formatTime for a whole number of seconds.
formatTime(seconds) ==
    IF seconds >= 1
      THEN LET tenths == seconds * 10
           IN  ToString(tenths \div 10)
               \o (IF tenths % 10 = 0 THEN "" ELSE "." \o ToString(tenths % 10)) \o " s"
      ELSE ToString(seconds * 1000) \o " ms"

formatLine(value, change) ==
    IF value # "" THEN value \o " (" \o change.pretty \o ")" ELSE change.pretty

\* result.field ?? 0
OrZero(result, field) == IF field \in DOMAIN result THEN result[field] ELSE 0

\* Variant: the change is taken from current to base.
formatSizeResultReversed(name, base, current) ==
    <<name, formatLine(formatBytes(current.size), calculateChange(current.size, base.size))>>

formatSizeResult(name, base, current) ==
    <<name, formatLine(formatBytes(current.size), calculateChange(base.size, current.size))>>

formatTimeResult(name, base, current) ==
    <<name,
      formatLine(formatBytes(current.size), calculateChange(base.size, current.size)),
      formatLine(formatTime(OrZero(current, "loading")),
                 calculateChange(OrZero(base, "loading"), OrZero(current, "loading"))),
      formatLine(formatTime(OrZero(current, "running")),
                 calculateChange(OrZero(base, "running"), OrZero(current, "running"))),
      formatTime(OrZero(current, "total"))>>

hasTimingData(result) == "total" \in DOMAIN result

\* Object.keys of a map of results.
Keys(results) == [i \in 1..Len(results) |-> results[i].name]

\* results[name] is not undefined.
HasKey(results, name) == \E i \in 1..Len(results) : results[i].name = name

\* results[name]
Get(results, name) == results[CHOOSE i \in 1..Len(results) : results[i].name = name]

\* Variant: the keys of both maps one after the other, as they come.
UniqueNot(keys) == keys

\* [...new Set(keys)]: every key once, in the order of its first occurrence.
Unique(keys) ==
    LET First(i) == \A j \in 1..(i - 1) : keys[j] # keys[i]
        kept == {i \in 1..Len(keys) : First(i)}
        Nth(n) == CHOOSE i \in kept : Cardinality({j \in kept : j < i}) = n - 1
    IN  [n \in 1..Cardinality(kept) |-> keys[Nth(n)]]

\* Variant: the timing columns are used when either side has timing data.
HasTimeEither(base, current) ==
    \E name \in {Keys(base)[i] : i \in 1..Len(base)} \cup {Keys(current)[i] : i \in 1..Len(current)} :
        \/ HasKey(current, name) /\ hasTimingData(Get(current, name))
        \/ HasKey(base, name) /\ hasTimingData(Get(base, name))

\* format-size-limit.ts:330
HasTime(base, current) ==
    \E name \in {Keys(base)[i] : i \in 1..Len(base)} \cup {Keys(current)[i] : i \in 1..Len(current)} :
        HasKey(current, name) /\ hasTimingData(Get(current, name))

\* format-size-limit.ts formatResults
formatResults(base, current) ==
    LET names == Unique(Keys(base) \o Keys(current))
        hasTime == HasTime(base, current)
        header == IF hasTime THEN SIZE_LIMIT_TIME_RESULTS_HEADER ELSE SIZE_LIMIT_RESULTS_HEADER
        emptyResult == IF hasTime THEN EMPTY_TIME_RESULT ELSE EMPTY_SIZE_RESULT
        baseResult(name) == IF HasKey(base, name) THEN Get(base, name) ELSE emptyResult
        currentResult(name) == IF HasKey(current, name) THEN Get(current, name) ELSE emptyResult
        fields == [i \in 1..Len(names) |->
                      IF hasTime
                        THEN formatTimeResult(names[i], baseResult(names[i]), currentResult(names[i]))
                        ELSE formatSizeResult(names[i], baseResult(names[i]), currentResult(names[i]))]
    IN  <<header>> \o fields

\* ------------------------------------------------------ specifications

NoResult == [status |-> 0, output |-> "", commitHash |-> ""]
NoOpts == [branch |-> "", worktreeDirectory |-> ""]

\* One execution of run() on a pull request with any comments.
Init ==
    /\ pc = "start"
    /\ inputs \in [pullRequest : BOOLEAN, skipStep : SkipStepInputs,
                   cleanScript : CleanScriptInputs, packageManager : PackageManagerInputs]
    /\ cw = [s \in Sides |-> "idle"]
    /\ ch = [s \in Sides |-> "idle"]
    /\ rm = [s \in Sides |-> "idle"]
    /\ wt = [s \in Sides |-> FALSE]
    /\ opts = [s \in Sides |-> NoOpts]
    /\ res = [s \in Sides |-> NoResult]
    /\ chErr = [s \in Sides |-> NoErr]
    /\ pendingErr = NoErr
    /\ failed = <<>>
    /\ warnings = {}
    /\ store \in Stores(MaxInitComments)
    /\ found = 0
    /\ calls = [list |-> 0, create |-> 0, update |-> 0]
    /\ rmCalls = [s \in Sides |-> 0]
    /\ fetched = [s \in Sides |-> FALSE]
    /\ runNo = 1
    /\ peer = NoPeer
    /\ call = NoCall
    /\ log = [s \in Sides |-> <<>>]

Next ==
    \/ RunStart
    \/ \E s \in Sides, ok \in BOOLEAN : CreateWorktreeDone(s, ok)
    \/ AwaitWorktrees
    \/ \E s \in Sides, ok \in BOOLEAN : StepDone(s, ok)
    \/ \E s \in Sides, status \in {0, 1}, output \in Outputs : AnalyzeDone(s, status, output)
    \/ \E s \in Sides : AnalyzeFail(s)
    \/ AwaitSizeLimit
    \/ \E s \in Sides, ok \in BOOLEAN : RemoveWorktreeDone(s, ok)
    \/ AfterRemove
    \/ \E ok \in BOOLEAN : ListDone(ok)
    \/ \E ok \in BOOLEAN : CreateCommentDone(ok)
    \/ \E ok \in BOOLEAN : UpdateCommentDone(ok)

Spec == Init /\ [][Next]_vars

\* The state in which run() has called listComments: both chains returned,
\* both worktrees removed, both outputs parsed.
AtPublish(st, status) ==
    /\ pc = "awaitList"
    /\ inputs = [pullRequest |-> TRUE, skipStep |-> "", cleanScript |-> "",
                 packageManager |-> ""]
    /\ cw = [s \in Sides |-> "ok"]
    /\ ch = [s \in Sides |-> "returned"]
    /\ rm = [s \in Sides |-> "ok"]
    /\ wt = [s \in Sides |-> FALSE]
    /\ opts = [s \in Sides |-> [branch |-> Ref(s), worktreeDirectory |-> WorktreePath(s)]]
    /\ res = [s \in Sides |-> [status |-> IF s = "head" THEN status ELSE 0,
                               output |-> "[]", commitHash |-> CommitHash(s)]]
    /\ chErr = [s \in Sides |-> NoErr]
    /\ pendingErr = NoErr
    /\ failed = <<>>
    /\ warnings = {}
    /\ store = st
    /\ found = 0
    /\ calls = [list |-> 1, create |-> 0, update |-> 0]
    /\ rmCalls = [s \in Sides |-> 1]
    /\ fetched = [s \in Sides |-> FALSE]
    /\ runNo = 1
    /\ call = NoCall
    /\ log = [s \in Sides |-> <<[step |-> "install", tool |-> "npm"],
                                 [step |-> "build", tool |-> "npm"],
                                 [step |-> "analyze", tool |-> "script"],
                                 [step |-> "hash", tool |-> "git"]>>]

\* A later run of the action on the same pull request (a further push)
\* reaches its publish phase after the previous run has ended.
NextPush(status) ==
    /\ pc = "done"
    /\ runNo < MaxRuns
    /\ runNo' = runNo + 1
    /\ pc' = "awaitList"
    /\ res' = [res EXCEPT !["head"].status = status]
    /\ failed' = <<>>
    /\ warnings' = {}
    /\ found' = 0
    /\ calls' = [list |-> 1, create |-> 0, update |-> 0]
    /\ UNCHANGED <<inputs, call, peer, cw, ch, log, rm, wt, opts, chErr, pendingErr, store,
                   rmCalls, fetched>>

NextPublish ==
    \/ \E ok \in BOOLEAN : ListDone(ok)
    \/ \E ok \in BOOLEAN : CreateCommentDone(ok)
    \/ \E ok \in BOOLEAN : UpdateCommentDone(ok)
    \/ \E status \in {0, 1} : NextPush(status)

\* Successive publish phases on a pull request with any comments.
InitPublish ==
    \E st \in Stores(MaxPublishComments), status \in {0, 1} :
        /\ AtPublish(st, status)
        /\ peer = NoPeer

SpecPublish == InitPublish /\ [][NextPublish]_vars

\* Successive publish phases on a pull request that has no report comment.
InitPushes ==
    \E st \in Stores(MaxPublishComments), status \in {0, 1} :
        /\ ReportIds(st) = {}
        /\ AtPublish(st, status)
        /\ peer = NoPeer

SpecPushes == InitPushes /\ [][NextPublish]_vars

\* index.ts:140-156 in another run of the action on the same pull request,
\* started by a further push while this run is publishing: its listComments
\* settles and its create or update call is started.
PeerListDone(ok) ==
    /\ peer.pc = "awaitList"
    /\ peer' = IF ok
                 THEN [pc |-> IF fetchSizeLimitCommentId(store) = 0
                                THEN "awaitCreate" ELSE "awaitUpdate",
                       found |-> fetchSizeLimitCommentId(store)]
                 ELSE [peer EXCEPT !.pc = "done"]
    /\ UNCHANGED <<pc, inputs, call, cw, ch, log, rm, wt, opts, res, chErr, pendingErr,
                   failed, warnings, store, found, calls, rmCalls, fetched, runNo>>

\* index.ts:142-152 in the other run: its createComment settles.
PeerCreateCommentDone(ok) ==
    /\ peer.pc = "awaitCreate"
    /\ store' = IF ok THEN createSizeLimitComment(store, CommentBody(runNo + 1)) ELSE store
    /\ peer' = [peer EXCEPT !.pc = "done"]
    /\ UNCHANGED <<pc, inputs, call, cw, ch, log, rm, wt, opts, res, chErr, pendingErr,
                   failed, warnings, found, calls, rmCalls, fetched, runNo>>

\* index.ts:153-164 in the other run: its updateComment settles.
PeerUpdateCommentDone(ok) ==
    /\ peer.pc = "awaitUpdate"
    /\ store' = IF ok
                  THEN updateSizeLimitComment(store, peer.found, CommentBody(runNo + 1))
                  ELSE store
    /\ peer' = [peer EXCEPT !.pc = "done"]
    /\ UNCHANGED <<pc, inputs, call, cw, ch, log, rm, wt, opts, res, chErr, pendingErr,
                   failed, warnings, found, calls, rmCalls, fetched, runNo>>

\* Two runs of the action publish on the same pull request at the same
\* time: both have called listComments, and the pull request holds at most
\* one report comment, on the first page.
InitOverlap ==
    \E st \in Stores(MaxInitComments), status \in {0, 1} :
        /\ Cardinality(ReportIds(st)) <= 1
        /\ AtPublish(st, status)
        /\ peer = [pc |-> "awaitList", found |-> 0]

NextOverlap ==
    \/ \E ok \in BOOLEAN : ListDone(ok)
    \/ \E ok \in BOOLEAN : CreateCommentDone(ok)
    \/ \E ok \in BOOLEAN : UpdateCommentDone(ok)
    \/ \E ok \in BOOLEAN : PeerListDone(ok)
    \/ \E ok \in BOOLEAN : PeerCreateCommentDone(ok)
    \/ \E ok \in BOOLEAN : PeerUpdateCommentDone(ok)

SpecOverlap == InitOverlap /\ [][NextOverlap]_vars

\* execSizeLimit called on its own, with or without a worktree directory.
InitExec ==
    /\ pc = "standalone"
    /\ inputs \in [pullRequest : {TRUE}, skipStep : {"", "install", "build"},
                   cleanScript : CleanScriptInputs, packageManager : {"", " Yarn "}]
    /\ opts \in [Sides -> [branch : {"", "main"},
                           worktreeDirectory : {"", ".git-worktree-base"}]]
    /\ cw = [s \in Sides |-> "idle"]
    /\ ch = [s \in Sides |-> IF s = "base"
                               THEN ExecEntry(opts[s].branch, opts[s].worktreeDirectory,
                                              inputs.skipStep)
                               ELSE "idle"]
    /\ opts["head"] = NoOpts
    /\ rm = [s \in Sides |-> "idle"]
    /\ wt = [s \in Sides |-> FALSE]
    /\ res = [s \in Sides |-> NoResult]
    /\ chErr = [s \in Sides |-> NoErr]
    /\ pendingErr = NoErr
    /\ failed = <<>>
    /\ warnings = {}
    /\ store = <<>>
    /\ found = 0
    /\ calls = [list |-> 0, create |-> 0, update |-> 0]
    /\ rmCalls = [s \in Sides |-> 0]
    /\ fetched = [s \in Sides |-> FALSE]
    /\ runNo = 1
    /\ peer = NoPeer
    /\ call = NoCall
    /\ log = [s \in Sides |-> Started(<<>>, ch[s], Manager(opts[s].worktreeDirectory))]

NextExec ==
    \/ \E s \in Sides, ok \in BOOLEAN : FetchBranchDone(s, ok)
    \/ \E s \in Sides, ok \in BOOLEAN : CheckoutDone(s, ok)
    \/ \E s \in Sides, ok \in BOOLEAN : StepDone(s, ok)
    \/ \E s \in Sides, status \in {0, 1}, output \in Outputs : AnalyzeDone(s, status, output)
    \/ \E s \in Sides : AnalyzeFail(s)

SpecExec == InitExec /\ [][NextExec]_vars

\* The variables of run() and execSizeLimit.
runVars == <<pc, inputs, cw, ch, rm, wt, opts, res, chErr, pendingErr, failed,
             warnings, store, found, calls, rmCalls, fetched, runNo, log, peer>>

\* No run() is in progress: an exported function is used on its own.
Library ==
    /\ pc = "library"
    /\ inputs = [pullRequest |-> TRUE, skipStep |-> "", cleanScript |-> "",
                 packageManager |-> ""]
    /\ cw = [s \in Sides |-> "idle"]
    /\ ch = [s \in Sides |-> "idle"]
    /\ rm = [s \in Sides |-> "idle"]
    /\ wt = [s \in Sides |-> FALSE]
    /\ opts = [s \in Sides |-> NoOpts]
    /\ res = [s \in Sides |-> NoResult]
    /\ chErr = [s \in Sides |-> NoErr]
    /\ pendingErr = NoErr
    /\ failed = <<>>
    /\ warnings = {}
    /\ store = <<>>
    /\ found = 0
    /\ calls = [list |-> 0, create |-> 0, update |-> 0]
    /\ rmCalls = [s \in Sides |-> 0]
    /\ fetched = [s \in Sides |-> FALSE]
    /\ runNo = 1
    /\ peer = NoPeer
    /\ log = [s \in Sides |-> <<>>]

\* The values calculateChange is called with: small sizes and the values
\* the tests of the repository use.
SampleNumbers == {-150, -100, -50, 50, 100, 107, 150, 200, 1000, 1005, 10000, 10001}
Numbers == (0..MaxNumber) \cup SampleNumbers

NoChange == [value |-> Zero(FALSE), isPositive |-> FALSE, pretty |-> ""]

\* One call of calculateChange(base, current).
InitChange ==
    /\ Library
    /\ call \in {[fn |-> "calculateChange", args |-> <<base, current>>,
                   returned |-> FALSE, ret |-> NoChange, threw |-> ""] :
                      base \in Numbers, current \in Numbers}

CalculateChange ==
    /\ call.fn = "calculateChange"
    /\ ~call.returned
    /\ call' = [call EXCEPT !.returned = TRUE,
                            !.ret = calculateChange(call.args[1], call.args[2])]
    /\ UNCHANGED runVars

NextChange == CalculateChange

SpecChange == InitChange /\ [][NextChange]_vars

\* The elements of the arrays given to parseResults: a name, the literal of
\* the size and, each present or not, the literals of loading and running.
Names == {"a", "b"}
SizeLiterals == {"0", "100", "\"107\""}
LoadingLiterals == {"1", "\"2\"", "null"}
RunningLiterals == {"3", "null"}
Elements ==
    [name : Names, size : SizeLiterals]
    \cup [name : Names, size : SizeLiterals, loading : LoadingLiterals]
    \cup [name : Names, size : SizeLiterals, running : RunningLiterals]
    \cup [name : Names, size : SizeLiterals, loading : LoadingLiterals,
           running : RunningLiterals]

\* The arrays of at most max elements.
Arrays(max) == UNION {[1..n -> Elements] : n \in 0..max}

\* The texts that are not the text of an array: two that are not JSON, then
\* an object, a string, a number, a boolean and null.
Texts == {"", "size-limit: not found", "{}", "\"a\"", "1", "true", "null"}

\* The outputs parseResults is given: a text, and for the text of an array
\* its elements.
Documents(max) ==
    {[text |-> text, elements |-> <<>>] : text \in Texts}
    \cup {[text |-> IF array = <<>> THEN "[]" ELSE "[...]", elements |-> array] :
             array \in Arrays(max)}

\* One call of parseResults(output).
InitParse ==
    /\ Library
    /\ call \in {[fn |-> "parseResults", args |-> <<output>>,
                   returned |-> FALSE, ret |-> <<>>, threw |-> ""] :
                      output \in Documents(MaxElements)}

ParseResults ==
    /\ call.fn = "parseResults"
    /\ ~call.returned
    /\ call.threw = ""
    /\ call' = IF parseResultsError(call.args[1]) # ""
                 THEN [call EXCEPT !.threw = parseResultsError(call.args[1])]
                 ELSE [call EXCEPT !.returned = TRUE, !.ret = parseResults(call.args[1])]
    /\ UNCHANGED runVars

NextParse == ParseResults

SpecParse == InitParse /\ [][NextParse]_vars

\* The maps of results formatResults is given: what parseResults returns
\* for arrays whose elements have the loading time 1 and the running time
\* 3 where they have one.
TimedElements ==
    {e \in Elements : /\ (Has(e, "loading") => e.loading = "1")
                       /\ (Has(e, "running") => e.running = "3")}
Results(max) == {Reduce(output, <<>>) : output \in UNION {[1..n -> TimedElements] : n \in 0..max}}

\* One call of formatResults(base, current).
InitFormat ==
    /\ Library
    /\ call \in {[fn |-> "formatResults", args |-> <<base, current>>,
                   returned |-> FALSE, ret |-> <<>>, threw |-> ""] :
                      base \in Results(MaxElements), current \in Results(MaxElements)}

FormatResults ==
    /\ call.fn = "formatResults"
    /\ ~call.returned
    /\ call' = [call EXCEPT !.returned = TRUE,
                            !.ret = formatResults(call.args[1], call.args[2])]
    /\ UNCHANGED runVars

NextFormat == FormatResults

SpecFormat == InitFormat /\ [][NextFormat]_vars

\* -------------------------------------------------------------- claims

Settled == {"ok", "warned"}
NoCalls == [list |-> 0, create |-> 0, update |-> 0]
SizeLimitExceeded == Err("Size limit exceeded", "")
HeadParseError == Err("Error parsing size-limit output", "")
BaseParseWarning == Err("Could not parse base branch size-limit results", "")

\* run() has got as far as creating the worktrees.
WorktreePhaseReached == \E s \in Sides : cw[s] # "idle"

\* Both execSizeLimit calls returned to run(): the try block ended normally.
BothReturned == pendingErr = NoErr /\ \A s \in Sides : ch[s] = "returned"

\* C1: in every execution of run() that reaches the worktree phase,
\* removeWorktree is invoked exactly once for the base path and exactly once
\* for the head path, and both invocations have settled when run() ends,
\* whatever the outcomes of the createWorktree calls and of the chains.
C1_RemoveWorktreeOncePerPath ==
    /\ \A s \in Sides : rmCalls[s] <= 1
    /\ (pc = "done" /\ WorktreePhaseReached) =>
          \A s \in Sides : rmCalls[s] = 1 /\ rm[s] \in Settled

\* C1 witness: run() ended after the base chain failed and the head chain
\* went on to return (one-side failure); each path was removed once.
C1_Witness ==
    /\ pc = "done"
    /\ ch["base"] = "failed" /\ ch["head"] = "returned"
    /\ \A s \in Sides : rmCalls[s] = 1

\* C2: the join waits for both chains: no createWorktree call and no
\* command of a chain is running, or yet to be started, once removeWorktree
\* has been started for that chain's worktree.
C2_JoinWaitsForBoth ==
    \A s \in Sides : rm[s] # "idle" => ~ChainBusy(s)

\* C3: every run in which the head chain returned with an analyze exit
\* status greater than zero ends having signalled failure.
C3_FailureWhenHeadOverBudget ==
    (pc = "done" /\ ch["head"] = "returned" /\ res["head"].status > 0) =>
        failed # <<>>

\* C4: once the publish phase is entered, a failure of listComments,
\* createComment or updateComment never changes the failure signal: run()
\* ends with 'Size limit exceeded' when the head status is above zero and
\* with no failure otherwise.
C4_PublishFailureNeverFails ==
    (pc = "done" /\ calls.list > 0) =>
        failed = IF res["head"].status > 0 THEN <<SizeLimitExceeded>> ELSE <<>>

ListError == Err("listComments", "")

\* The publish phase has ended and none of its store calls failed.
PublishSucceeded ==
    /\ pc = "done"
    /\ calls.list > 0
    /\ ListError \notin {failed[i] : i \in 1..Len(failed)}
    /\ \A w \in warnings : w.kind \notin {"Failed to create PR comment", "Failed to update PR comment"}

\* C5: on a pull request that had no report comment, successive publish
\* phases keep at most one comment that starts with the heading, exactly one
\* after a successful phase, and never call create while one exists.
C5_ExactlyOneReport ==
    /\ Cardinality(ReportIds(store)) <= 1
    /\ PublishSucceeded => Cardinality(ReportIds(store)) = 1
    /\ pc = "awaitCreate" => ReportIds(store) = {}

\* Position in the store of the first comment of the first page that starts
\* with the heading, 0 if the page has none.
FirstListedReport(st) ==
    IF \E i \in 1..Len(st) : i <= PerPage /\ StartsWithHeading(st[i].body)
    THEN CHOOSE i \in 1..Len(st) :
            /\ i <= PerPage
            /\ StartsWithHeading(st[i].body)
            /\ \A j \in 1..(i - 1) : ~StartsWithHeading(st[j].body)
    ELSE 0

\* The writes a publish phase may make between two states.
C6_WriteStep ==
    /\ Len(store') >= Len(store)
    /\ \A i \in 1..Len(store) :
          store'[i] # store[i] =>
             /\ pc = "awaitUpdate"
             /\ i = FirstListedReport(store)
             /\ store'[i] = [store[i] EXCEPT !.body = CommentBody(runNo)]
    /\ Len(store') > Len(store) =>
          /\ pc = "awaitCreate"
          /\ FirstListedReport(store) = 0
          /\ store' = Append(store, [id |-> NextId(store), body |-> CommentBody(runNo)])

\* C6: a publish phase whose listing arrived makes exactly one write
\* attempt: update, on the first listed comment that starts with the
\* heading, when there is one (and no create); create when there is none
\* (and no update).  A write changes that comment only, giving it the new
\* body, or appends the new comment; other comments are never modified.
C6_OneWritePerPublish ==
    /\ [](/\ calls.create + calls.update <= 1
          /\ pc = "awaitUpdate" =>
                /\ calls = [list |-> 1, create |-> 0, update |-> 1]
                /\ FirstListedReport(store) # 0
                /\ store[FirstListedReport(store)].id = found
          /\ pc = "awaitCreate" =>
                /\ calls = [list |-> 1, create |-> 1, update |-> 0]
                /\ FirstListedReport(store) = 0
          /\ (pc = "done" /\ ListError \notin {failed[i] : i \in 1..Len(failed)}) =>
                calls.create + calls.update = 1)
    /\ [][C6_WriteStep]_vars

\* C6 witness: a phase updated a report comment that is not the first
\* comment of the pull request while a second report comment exists.
C6_Witness ==
    /\ pc = "done"
    /\ calls.update = 1
    /\ Cardinality(ReportIds(store)) >= 2
    /\ ~StartsWithHeading(store[1].body)
    /\ store[2].body = CommentBody(runNo)

\* C7: when the base output cannot be parsed, run() logs the warning, makes
\* no call on the report store and signals no failure.
C7_BaseParseFailureIsWarning ==
    (pc = "done" /\ BothReturned /\ JsonKind(res["base"].output) # "array") =>
        /\ BaseParseWarning \in warnings
        /\ calls = NoCalls
        /\ failed = <<>>

\* C7 witness: run() ended after both chains returned with a base output
\* that is JSON but no array.
C7_Witness ==
    /\ pc = "done"
    /\ BothReturned
    /\ res["base"].output = "{}"
    /\ BaseParseWarning \in warnings

\* C8 as stated: whenever both chains return and the head output cannot be
\* parsed, run() ends with the head-parse failure and no store call, for
\* every base output.
C8_HeadParseFailureAlwaysFatal ==
    (pc = "done" /\ BothReturned /\ JsonKind(res["head"].output) # "array") =>
        /\ failed = <<HeadParseError>>
        /\ calls = NoCalls

\* C8 amended: whenever both chains return and the head output cannot be
\* parsed, no store call is made; run() ends with the head-parse failure if
\* the base output parses, and with the base-parse warning and no failure
\* if the base output cannot be parsed either.
C8_HeadParseFailureFatalAfterBase ==
    (pc = "done" /\ BothReturned /\ JsonKind(res["head"].output) # "array") =>
        /\ calls = NoCalls
        /\ IF JsonKind(res["base"].output) = "array"
             THEN failed = <<HeadParseError>> /\ BaseParseWarning \notin warnings
             ELSE failed = <<>> /\ BaseParseWarning \in warnings

\* C8 witness: run() ended on the head-parse failure with a parseable base.
C8_Witness ==
    /\ pc = "done"
    /\ BothReturned
    /\ res["base"].output = "[]"
    /\ res["head"].output = ""
    /\ failed = <<HeadParseError>>

\* C9: if creation of either worktree fails, no command of either chain is
\* executed, no store call is made, and run() ends with the createWorktree
\* failure as its only failure signal.
C9_NoAnalysisAfterWorktreeFailure ==
    (\E s \in Sides : cw[s] = "failed") =>
        /\ \A s \in Sides : ch[s] = "idle"
        /\ calls = NoCalls
        /\ pc = "done" => (Len(failed) = 1 /\ failed[1].kind = "Failed to create worktree")

\* C9 witness: run() ended after the base worktree could not be created
\* although the head worktree was.
C9_Witness ==
    /\ pc = "done"
    /\ cw["base"] = "failed"
    /\ cw["head"] = "ok"

\* C10: `git worktree add` for a ref is never issued before a fetch of that
\* ref has completed successfully in the same run.
C10_FetchBeforeWorktreeAdd ==
    \A s \in Sides : cw[s] # "idle" => fetched[s]

\* ------------------------------------------------------------------
\* Command sequencing of execSizeLimit

IsPrefix(a, b) == Len(a) <= Len(b) /\ SubSeq(b, 1, Len(a)) = a

\* The steps of a chain's started commands, the checkout phase left out.
CommandSteps(lg) ==
    LET IsCommand(c) == c.step \in Commands
        f == SelectSeq(lg, IsCommand)
    IN  [i \in 1..Len(f) |-> f[i].step]

\* The order the commands are due in for the given inputs.
ExpectedCommands(skipStep, cleanScript) ==
    LET Due(c) == /\ (c = "install" => skipStep # "install")
                  /\ (c = "build" => skipStep # "build")
                  /\ (c = "clean" => cleanScript # "")
    IN  SelectSeq(<<"install", "build", "analyze", "clean", "hash">>, Due)

C11_InOrder ==
    \A s \in Sides :
        LET done == CommandSteps(log[s])
            due == ExpectedCommands(inputs.skipStep, inputs.cleanScript)
        IN  /\ IsPrefix(done, due)
            /\ (ch[s] = "returned" => done = due)
            /\ (ch[s] \in Commands => done # <<>> /\ done[Len(done)] = ch[s])

C11_StartStep ==
    \A s \in Sides :
        log'[s] # log[s] =>
            /\ Len(log'[s]) = Len(log[s]) + 1
            /\ SubSeq(log'[s], 1, Len(log[s])) = log[s]
            /\ (log[s] # <<>> => ch[s] = log[s][Len(log[s])].step /\ ch'[s] # ch[s])

\* C11: within one execSizeLimit call the commands started are, in this
\* order, install, build, analyze, clean and commit-hash resolution, install
\* left out exactly when skipStep is install, build exactly when skipStep is
\* build, clean present exactly when a clean script is configured; a command
\* is started only in a step in which the one before it has finished, and a
\* returned call has started all that were due.
C11_CommandsInOrder == [](C11_InOrder) /\ [][C11_StartStep]_vars

C11_Witness ==
    /\ ch["head"] = "returned"
    /\ inputs.skipStep = "build"
    /\ inputs.cleanScript # ""
    /\ CommandSteps(log["head"]) = <<"install", "analyze", "clean", "hash">>

\* ------------------------------------------------------------------
\* Failing steps of execSizeLimit

\* The command a chain started last.
LastCommand(s) == log[s][Len(log[s])]

\* The chain of side s ended because its install, build or clean command failed.
StepFailed(s) ==
    /\ ch[s] = "failed"
    /\ log[s] # <<>>
    /\ LastCommand(s).step \in {"install", "build", "clean"}

\* The message of the error that names the step.
StepMessage(step) ==
    CASE step = "install" -> "Failed to install dependencies"
      [] step = "build" -> "Failed to run build script"
      [] step = "clean" -> "Failed to run clean script"

C12_Raised ==
    \A s \in Sides :
        StepFailed(s) =>
            /\ chErr[s] = Err(StepMessage(LastCommand(s).step), LastCommand(s).tool)
            /\ LastCommand(s).tool \in PackageManager
            /\ (pc = "done" =>
                  /\ Len(failed) = 1
                  /\ failed[1] \in {chErr[t] : t \in {u \in Sides : ch[u] = "failed"}}
                  /\ calls = NoCalls)

C12_NoLaterStep == \A s \in Sides : StepFailed(s) => log'[s] = log[s] /\ ch'[s] = ch[s]

\* C12: when the install, build or clean command of a chain fails,
\* execSizeLimit rejects with an error that names the failed step and the
\* installer it ran, and the chain starts no further command; a run that has
\* ended then has signalled failure once, with the error of a failed chain,
\* and has made no call to the report store, also when the analyze command
\* had succeeded before the clean command failed.
C12_StepFailureAborts == [](C12_Raised) /\ [][C12_NoLaterStep]_vars

C12_Witness ==
    /\ pc = "done"
    /\ StepFailed("head")
    /\ LastCommand("head").step = "clean"
    /\ res["head"].status = 0
    /\ res["head"].output = "[]"
    /\ failed = <<Err("Failed to run clean script", "yarn")>>
    /\ calls = NoCalls

\* ------------------------------------------------------------------
\* Exit code of the analyze command

C13_Returned ==
    \A s \in Sides :
        (ch[s] = "returned" /\ res[s].status > 0) =>
            LET done == CommandSteps(log[s])
                n == Len(done)
            IN  /\ n >= 2
                /\ done[n] = "hash"
                /\ IF inputs.cleanScript # ""
                     THEN n >= 3 /\ done[n - 1] = "clean" /\ done[n - 2] = "analyze"
                     ELSE done[n - 1] = "analyze"

C13_Step ==
    \A s \in Sides :
        /\ (ch[s] = "analyze" /\ res'[s].status > 0) =>
              ch'[s] = IF inputs.cleanScript # "" THEN "clean" ELSE "hash"
        /\ (ch[s] \in {"clean", "hash", "returned"} /\ res[s].status > 0) =>
              res'[s].status = res[s].status /\ res'[s].output = res[s].output

\* C13: an analyze command that exits with a non-zero code does not end the
\* chain: the clean command (if one is configured) and the commit-hash
\* resolution are started after it, and the status and the output captured
\* from the analyze command stay what execSizeLimit holds until and after it
\* returns.
C13_AnalyzeExitCodeKept == [](C13_Returned) /\ [][C13_Step]_vars

C13_Witness ==
    /\ ch["head"] = "returned"
    /\ res["head"].status = 1
    /\ res["head"].output = "[]"
    /\ res["head"].commitHash # ""
    /\ CommandSteps(log["head"]) = <<"install", "build", "analyze", "clean", "hash">>

\* ------------------------------------------------------------------
\* Outcome of the worktree removals

RemoveWarning(s) == Err("Failed to remove worktree", RemoveFailure(WorktreePath(s), TRUE))

\* The warning of a removal that found no worktree at the path.
MissingWarning(s) == Err("Failed to remove worktree", RemoveFailure(WorktreePath(s), FALSE))

RemoveWarnings(s) == {RemoveWarning(s), MissingWarning(s)}

\* A step in which a removal settles leaves alone everything the outcome of
\* the run is made of, and a failed removal leaves its warning.
C14_RemovalStep ==
    \A s \in Sides :
        (rm[s] = "running" /\ rm'[s] # "running") =>
            /\ UNCHANGED <<pc, pendingErr, res, failed, calls, store, found>>
            /\ (rm'[s] = "warned" => RemoveWarnings(s) \cap warnings' # {})
            /\ (rm'[s] = "ok" => warnings' = warnings)

\* What a run that has ended signalled and called, told from the error of
\* the try block, the two outputs and the answers of the report store.
C14_Outcome ==
    (pc = "done" /\ WorktreePhaseReached) =>
        /\ \A s \in Sides : rm[s] \in Settled
        /\ \A s \in Sides : rm[s] = "warned" <=> RemoveWarnings(s) \cap warnings # {}
        /\ IF pendingErr # NoErr
             THEN failed = <<pendingErr>> /\ calls = NoCalls
           ELSE IF ParseOutcome(res["base"].output, res["head"].output) = "skip"
             THEN failed = <<>> /\ calls = NoCalls
           ELSE IF ParseOutcome(res["base"].output, res["head"].output) = "throw"
             THEN failed = <<HeadParseError>> /\ calls = NoCalls
           ELSE /\ calls.list = 1
                /\ \/ failed = <<ListError>> /\ calls.create + calls.update = 0
                   \/ /\ calls.create + calls.update = 1
                      /\ failed = IF res["head"].status > 0
                                    THEN <<SizeLimitExceeded>> ELSE <<>>

\* C14: a removeWorktree that fails leaves a warning and nothing else: the
\* step in which a removal settles changes neither the error the run is
\* going to signal nor the report store nor the calls made to it, and what
\* an ended run has signalled and called follows from the error of the try
\* block, the two outputs and the store's answers alone, whichever way each
\* removal went.
C14_RemovalNeverChangesOutcome == [](C14_Outcome) /\ [][C14_RemovalStep]_vars

C14_Witness ==
    /\ pc = "done"
    /\ rm["base"] = "warned"
    /\ rm["head"] = "ok"
    /\ warnings = {RemoveWarning("base")}
    /\ failed = <<>>
    /\ calls = [list |-> 1, create |-> 1, update |-> 0]

\* ------------------------------------------------------------------
\* Choice of the installer

\* The installer the chain of side s is due to run its install, build and
\* clean commands with.
DueInstaller(s) ==
    IF inputs.packageManager = ""
      THEN getPackageManager(opts[s].worktreeDirectory)
      ELSE packageManagerFromStringToEnum(inputs.packageManager)

\* C15: every install, build and clean command of a chain is run with the
\* installer detected for that chain's working directory when the
\* package_manager input is unset (npm only when nothing is detected), and
\* with the named installer, for both chains, when the input names a
\* supported one.
C15_InstallerDetectedWhenUnset ==
    \A s \in Sides : \A i \in 1..Len(log[s]) :
        log[s][i].step \in {"install", "build", "clean"} =>
            log[s][i].tool = DueInstaller(s)

\* ------------------------------------------------------------------
\* Change Calculator

\* calculateChange(base, current) has returned.
ChangeReturned == call.fn = "calculateChange" /\ call.returned

\* C16: for every current value, 0 included, calculateChange(0, current)
\* returns the value 100, isPositive true and a pretty string that reads
\* +100% followed by the glyph.
C16_ZeroBaseIsPlusHundred ==
    (ChangeReturned /\ call.args[1] = 0) =>
        /\ call.ret.value = FromInt(100)
        /\ call.ret.isPositive
        /\ \E emoji \in {"▲", "▼"} : call.ret.pretty = "+100% " \o emoji

C16_Witness ==
    /\ ChangeReturned
    /\ call.args = <<0, 0>>
    /\ call.ret.value = FromInt(100)
    /\ call.ret.isPositive

\* C17: for a base other than 0, calculateChange returns as value the
\* number ((current - base) / base) * 100 of the runtime's arithmetic and
\* as isPositive whether current > base; equal arguments give the value 0
\* with isPositive false, and calculateChange(-100, 100) gives the value
\* -200 with isPositive true.
C17_ValueAndDirection ==
    (ChangeReturned /\ call.args[1] # 0) =>
        LET base == call.args[1]
            current == call.args[2]
        IN  /\ call.ret.value = Times(Quotient(current - base, base), 100)
            /\ call.ret.isPositive = (current > base)
            /\ (current = base => IsZero(call.ret.value) /\ ~call.ret.isPositive)
            /\ (base = -100 /\ current = 100 =>
                  call.ret.value = FromInt(-200) /\ call.ret.isPositive)

C17_Witness ==
    /\ ChangeReturned
    /\ call.args = <<-100, 100>>
    /\ call.ret.value = FromInt(-200)
    /\ call.ret.isPositive

\* The absolute percentage 100 * |current - base| / |base| in hundredths,
\* rounded up, in exact arithmetic.
CeilHundredths(base, current) ==
    (10000 * Magnitude(current - base) + Magnitude(base) - 1) \div Magnitude(base)

\* C18: for a base other than 0 the number shown in pretty is the absolute
\* percentage rounded up to two decimal places (so it is not below the true
\* magnitude and less than 0.01 above it), after a + when isPositive and a -
\* otherwise.
C18_ShownIsCeilingOfPercentage ==
    (ChangeReturned /\ call.args[1] # 0) =>
        \E emoji \in {"▲", "▼"} :
            call.ret.pretty =
                (IF call.ret.isPositive THEN "+" ELSE "-")
                \o HundredthsToString(CeilHundredths(call.args[1], call.args[2]))
                \o "% " \o emoji

\* ------------------------------------------------------------------
\* parseResults

ParseReturned == call.fn = "parseResults" /\ call.returned

\* The number a literal of the input stands for once coerced.
Coerced(literal) ==
    CASE literal = "null" -> 0
      [] literal = "\"2\"" -> 2
      [] literal = "\"107\"" -> 107
      [] literal = "1" -> 1
      [] literal = "3" -> 3
      [] literal = "100" -> 100

\* The record parseResults returned under a name.
RecordOf(name) == CHOOSE r \in {call.ret[i] : i \in 1..Len(call.ret)} : r.name = name

\* The elements that are the last of their name in the array.
LastOfName(output) ==
    {i \in 1..Len(output) : \A j \in (i + 1)..Len(output) : output[j].name # output[i].name}

\* C19: the record returned for an element (the last of its name in the
\* array) carries loading, running and total exactly when the element has
\* both loading and running; total is
\* then the sum of the two after coercion to numbers; an element with none
\* or only one of the two gives a record with name and size only.
C19_TimingOnlyWhenBoth ==
    ParseReturned =>
        \A i \in LastOfName(call.args[1].elements) :
            LET element == call.args[1].elements[i]
                record == RecordOf(element.name)
                both == {"loading", "running"} \subseteq DOMAIN element
            IN  /\ \E r \in {call.ret[k] : k \in 1..Len(call.ret)} : r.name = element.name
                /\ DOMAIN record = IF both
                                     THEN {"name", "size", "loading", "running", "total"}
                                     ELSE {"name", "size"}
                /\ both => /\ record.loading = Coerced(element.loading)
                           /\ record.running = Coerced(element.running)
                           /\ record.total = Coerced(element.loading) + Coerced(element.running)

C19_Witness ==
    /\ ParseReturned
    /\ call.args[1].elements = <<[name |-> "a", size |-> "100", loading |-> "\"2\"", running |-> "3"],
                        [name |-> "b", size |-> "100", loading |-> "1"]>>
    /\ call.ret = <<[name |-> "a", size |-> 100, loading |-> 2, running |-> 3, total |-> 5],
                    [name |-> "b", size |-> 100]>>

\* ------------------------------------------------------------------
\* formatResults

FormatReturned == call.fn = "formatResults" /\ call.returned

\* Some record of the map has total defined.
SomeTotal(results) == \E i \in 1..Len(results) : "total" \in DOMAIN results[i]

\* C20: formatResults(base, current) returns the five-column header and
\* rows of five cells when some record of current has total defined, and
\* the two-column header and rows of two cells otherwise, whatever base
\* carries; every row has as many cells as the header.
C20_TimingColumnsFollowCurrent ==
    FormatReturned =>
        LET rows == call.ret
            width == IF SomeTotal(call.args[2]) THEN 5 ELSE 2
        IN  /\ Len(rows) >= 1
            /\ rows[1] = IF SomeTotal(call.args[2])
                           THEN <<"Path", "Size", "Loading time (on slow 3G)",
                                  "Running time (on Snapdragon 410)", "Total time">>
                           ELSE <<"Path", "Size">>
            /\ \A i \in 1..Len(rows) : Len(rows[i]) = width

C20_Witness ==
    /\ FormatReturned
    /\ call.args[1] = <<[name |-> "a", size |-> 100, loading |-> 1, running |-> 3, total |-> 4]>>
    /\ call.args[2] = <<[name |-> "a", size |-> 107]>>
    /\ call.ret = <<<<"Path", "Size">>, <<"a", "107 B (+7.01% ▲)">>>>

\* The names of the data rows, in the order of the rows.
RowNames(rows) == [i \in 1..(Len(rows) - 1) |-> rows[i + 1][1]]

\* The names of a map of results, in the order of its keys.
NamesOf(results) == [i \in 1..Len(results) |-> results[i].name]

\* C21: the data rows of formatResults(base, current) name every key of
\* base in the order of base, then every key that only current has in the
\* order of current: each name of the two maps once and no other name.
C21_RowsNameTheUnionInOrder ==
    FormatReturned =>
        LET base == NamesOf(call.args[1])
            current == NamesOf(call.args[2])
            InBase(name) == \E i \in 1..Len(base) : base[i] = name
            OnlyCurrent(name) == ~InBase(name)
            names == RowNames(call.ret)
        IN  /\ names = base \o SelectSeq(current, OnlyCurrent)
            /\ \A i, j \in 1..Len(names) : names[i] = names[j] => i = j
            /\ {names[i] : i \in 1..Len(names)}
                 = {base[i] : i \in 1..Len(base)} \cup {current[i] : i \in 1..Len(current)}

C21_Witness ==
    /\ FormatReturned
    /\ NamesOf(call.args[1]) = <<"b">>
    /\ NamesOf(call.args[2]) = <<"a", "b">>
    /\ RowNames(call.ret) = <<"b", "a">>

\* The row formatResults returned for a name.
RowOf(name) == call.ret[CHOOSE i \in 2..Len(call.ret) : call.ret[i][1] = name]

\* The records of base whose name current does not have.
OnlyInBase ==
    {call.args[1][i] : i \in {k \in 1..Len(call.args[1]) :
                                  \A j \in 1..Len(call.args[2]) :
                                      call.args[2][j].name # call.args[1][k].name}}

\* C22 as stated: the size cell of every artifact that base has and current
\* lacks shows a change of -100%, whatever the base record.
C22_RemovedShowsMinusHundred ==
    FormatReturned =>
        \A record \in OnlyInBase : RowOf(record.name)[2] = "0 B (-100% ▼)"

\* C22: the size cell of an artifact that base has and current lacks shows
\* a size of 0 and a change of -100% when the base size is not 0, and the
\* +100% of a base of 0 when the base size is 0, in the two-column and in
\* the five-column table.
C22_RemovedShowsMinusHundredUnlessEmpty ==
    FormatReturned =>
        \A record \in OnlyInBase :
            RowOf(record.name)[2] = IF record.size = 0 THEN "0 B (+100% ▲)"
                                    ELSE "0 B (-100% ▼)"

C22_Witness ==
    /\ FormatReturned
    /\ call.args[1] = <<[name |-> "a", size |-> 100, loading |-> 1, running |-> 3, total |-> 4]>>
    /\ call.args[2] = <<[name |-> "b", size |-> 107, loading |-> 1, running |-> 3, total |-> 4]>>
    /\ Len(call.ret[1]) = 5
    /\ RowOf("a")[2] = "0 B (-100% ▼)"

\* The lines of a body that are not blank, in order.
Parts(b) == SelectSeq(b.lines, LAMBDA line : line # "")

\* The comments of the pull request that this run or a later push wrote.
Published == {i \in 1..Len(store) : store[i].body.rev >= 1}

C24_HeaderExact ==
    FormatReturned =>
        call.ret[1] = IF SomeTotal(call.args[2])
                        THEN <<"Path", "Size", "Loading time", "Running time", "Total time">>
                        ELSE <<"Path", "Size">>

\* C25: when two runs for the same pull request overlap, every interleaving
\* of their list, create and update calls leaves at most one comment whose
\* body starts with the heading.
C25_OverlapLeavesOneReport ==
    (pc = "done" /\ peer.pc = "done") => Cardinality(ReportIds(store)) <= 1

\* C26: the lookup considers every comment of the pull request: once the
\* listing has arrived, a comment whose body starts with the heading, wherever
\* it sits among the comments, has been found and is updated, and no comment
\* is created.
C26_LookupSeesEveryComment ==
    (pc \in {"awaitCreate", "awaitUpdate"} /\ ReportIds(store) # {}) =>
        /\ found \in ReportIds(store)
        /\ pc = "awaitUpdate"

\* The distinct names of the elements of an array.
DistinctNames(output) == {output[i].name : i \in 1..Len(output)}

\* C27: parseResults returns each name of the input as a key exactly once;
\* when several elements share a name the record of that key is the one of
\* the last such element; the number of keys is the number of distinct
\* names of the input.
C27_OneKeyPerNameLastWins ==
    ParseReturned =>
        LET output == call.args[1].elements
            keys == [i \in 1..Len(call.ret) |-> call.ret[i].name]
        IN  /\ \A i, j \in 1..Len(keys) : keys[i] = keys[j] => i = j
            /\ {keys[i] : i \in 1..Len(keys)} = DistinctNames(output)
            /\ Len(call.ret) = Cardinality(DistinctNames(output))
            /\ \A i \in LastOfName(output) :
                  RecordOf(output[i].name) = SizeLimitResultOf(output[i])

\* C27 witness: two elements share a name and the second record is kept.
C27_Witness ==
    /\ ParseReturned
    /\ call.args[1].elements = <<[name |-> "a", size |-> "100"],
                        [name |-> "a", size |-> "\"107\"", loading |-> "1", running |-> "3"]>>
    /\ call.ret = <<[name |-> "a", size |-> 107, loading |-> 1, running |-> 3, total |-> 4]>>

\* The call of parseResults has ended, by returning or by throwing.
ParseEnded == call.fn = "parseResults" /\ (call.returned \/ call.threw # "")

\* C28: parseResults raises an error for every input that is not valid
\* JSON, the empty string included, and for every valid JSON value that is
\* not an array (an object, a string, a number, a boolean, null); for the
\* text of the empty array it returns the empty mapping.
C28_ThrowsUnlessArray ==
    ParseEnded =>
        LET text == call.args[1].text
        IN  /\ text \in Texts => (call.threw # "" /\ ~call.returned)
            /\ text = "[]" => (call.returned /\ call.threw = "" /\ call.ret = <<>>)

\* C28 witness: the call on the text of an object has thrown.
C28_Witness ==
    /\ call.fn = "parseResults"
    /\ call.args[1].text = "{}"
    /\ call.threw = "TypeError"

\* run() has finished and every operation it started has settled.
AllSettled ==
    /\ pc = "done"
    /\ \A s \in Sides : ~ChainBusy(s) /\ rm[s] # "running"

\* C29: once run() has finished and every operation it started has
\* settled, no worktree created during the run is left, provided no removal
\* failed on a worktree that existed; this includes the run in which one
\* createWorktree fails while the other is still in progress.
C29_NoWorktreeLeft ==
    (AllSettled /\ \A s \in Sides : RemoveWarning(s) \notin warnings) =>
        \A s \in Sides : ~wt[s]

\* Both removals have settled, both chains have returned and both outputs
\* are the text of an array.
ReadyToPublish ==
    /\ \A s \in Sides : rm[s] \in Settled
    /\ \A s \in Sides : ch[s] = "returned"
    /\ \A s \in Sides : JsonKind(res[s].output) = "array"

\* A step that makes a call on the report store starts where both removals
\* have settled, both chains have returned and both outputs parse.
C30_CallStep ==
    (calls' # calls /\ calls'.list + calls'.create + calls'.update
                        > calls.list + calls.create + calls.update) => ReadyToPublish

\* C30: no call on the report store is made before both removeWorktree
\* calls have settled, and none unless both chains returned and both
\* outputs were parsed successfully.
C30_NoStoreCallBeforeCleanup ==
    /\ [](calls # NoCalls => ReadyToPublish)
    /\ [][C30_CallStep]_vars

\* C30 witness: listComments has been called after a removal that settled
\* by failing.
C30_Witness ==
    /\ pc = "awaitList"
    /\ calls = [list |-> 1, create |-> 0, update |-> 0]
    /\ rm = [base |-> "ok", head |-> "warned"]

\* Both chains returned, both outputs are the text of an array and the head
\* analyze status is above zero.
OverBudget ==
    /\ BothReturned
    /\ \A s \in Sides : JsonKind(res[s].output) = "array"
    /\ res["head"].status > 0

\* A step that signals the failure of an over-budget run is taken after
\* the one create or update attempt.
C31_SignalStep ==
    (OverBudget /\ failed = <<>> /\ failed' # <<>>) => calls.create + calls.update = 1

\* C31: when both chains return, both outputs parse and the head analyze
\* status is greater than zero, one create or update attempt is made before
\* the failure is signalled: an over-budget head never suppresses the
\* report.
C31_OverBudgetStillPublishes ==
    /\ []((pc = "done" /\ OverBudget) =>
            (failed # <<>> /\ calls.create + calls.update = 1))
    /\ [][C31_SignalStep]_vars

\* The event is not a pull request, skip_step is neither empty, install
\* nor build, or package_manager is set and names no supported installer.
InvalidInputs ==
    \/ ~inputs.pullRequest
    \/ inputs.skipStep \notin {"", "install", "build"}
    \/ inputs.packageManager # "" /\ TrimLower(inputs.packageManager) \notin PackageManager

\* Nothing has been done outside run(): no worktree created or removed, no
\* command started, no call on the report store.
NoSideEffect ==
    /\ \A s \in Sides :
          /\ cw[s] = "idle" /\ rm[s] = "idle" /\ ch[s] = "idle"
          /\ ~wt[s] /\ rmCalls[s] = 0 /\ log[s] = <<>> /\ ~fetched[s]
    /\ calls = NoCalls
    /\ warnings = {}

\* C32: on invalid inputs run() signals failure before any side effect: it
\* goes from its start straight to its end with one setFailed, and no
\* worktree is created or removed, no command runs and no report-store call
\* is made.
C32_InvalidInputsFailFirst ==
    InvalidInputs =>
        /\ NoSideEffect
        /\ pc \in {"start", "done"}
        /\ pc = "start" => failed = <<>>
        /\ pc = "done" =>
              /\ Len(failed) = 1
              /\ failed[1].kind \in {"Only pull_request workflows are supported",
                                     "Invalid skip step", "Invalid package manager"}

\* C32 witness: run() ended on a package_manager input that names no
\* supported installer, the other inputs being valid.
C32_Witness ==
    /\ pc = "done"
    /\ inputs.pullRequest
    /\ inputs.skipStep = "build"
    /\ inputs.packageManager = "pip"
    /\ failed = <<Err("Invalid package manager", "pip")>>

\* The positions of run(); an error that escaped would leave it at none.
Positions ==
    {"start", "awaitWorktrees", "awaitSizeLimit", "awaitRemove", "awaitList",
     "awaitCreate", "awaitUpdate", "done"}

\* C33: run() signals failure at most once per execution and lets no error
\* escape: it ends with no failure signal or with exactly one, the error
\* of the try block is the one signalled, no failure is signalled before
\* the end, and 'Size limit exceeded' is never combined with another
\* failure message.
C33_AtMostOneFailure ==
    /\ pc \in Positions
    /\ Len(failed) <= 1
    /\ pc # "done" => failed = <<>>
    /\ (pc = "done" /\ pendingErr # NoErr) => failed = <<pendingErr>>
    /\ (\E i \in 1..Len(failed) : failed[i] = SizeLimitExceeded) => failed = <<SizeLimitExceeded>>

\* C33 witness: run() ended on a rejected listing with the head over
\* budget, having signalled the listing error alone.
C33_Witness ==
    /\ pc = "done"
    /\ res["head"].status > 0
    /\ calls.list = 1
    /\ failed = <<ListError>>

====
